---- MODULE Spec2Model ----
(***************************************************************************)
(* A model of the data-workflow engine (src/index.js) with its expression  *)
(* resolver and path utilities (src/unnamed/part_000).                     *)
(*                                                                         *)
(* Representation.                                                         *)
(*  - A JavaScript value is a string tag: "TRUE"/"FALSE" are the booleans, *)
(*    "UNDEF" is undefined, "NULL" is null, "" is the empty string, "OBJ"  *)
(*    and "ARR" stand for an object and an array (only their truthiness    *)
(*    and kind are observed), any other string is that JavaScript string.  *)
(*  - A data tree is a function from the concrete paths that exist in it   *)
(*    (sequences of tokens, prefix closed, <<>> the root) to the tag of    *)
(*    the value there.  A key whose value is undefined is in the domain    *)
(*    with tag "UNDEF"; an absent key is not in the domain.                *)
(*  - A dotted string ('$.s.r.*.f', 's.r.0.f') is the sequence of its      *)
(*    '.'-separated tokens; a ref-path string starts with the token "$".   *)
(*    Every key and index of the model is a single character, so that the  *)
(*    character at an index of a dotted string is computed exactly         *)
(*    (CharAt).                                                            *)
(***************************************************************************)
EXTENDS Naturals, Sequences, FiniteSets, TLC

VARIABLES
  pc,                  \* where the call under study stands
  config, data,        \* the engine's configuration and the caller's data
  dataPath, refPath, paths,                 \* path-utils round trip
  resolvable, targetPath, resolved,         \* one call of resolve
  idx,                 \* the index of the loop the call is in
  sectionStates, nodeEvaluationOrder,       \* evaluateEdgeStates
  frontierFound, nodeStatuses, edgeStates,
  preconditionOrder,   \* the engine's order, set at construction
  original,            \* the caller's data as it was handed in
  result, shared,      \* pruneData's result; whether it is the caller's object
  cleared,             \* the concrete paths pruneData has cleared
  repruned,            \* pruneData run again on its own result
  validationMessages,  \* the messages of section "s", each with its pass
  requiredChecks       \* what the required pass found at each path it checked

pathVars == <<dataPath, refPath, paths>>

resolveVars == <<resolvable, targetPath, resolved>>

graphVars == <<sectionStates, nodeEvaluationOrder, frontierFound,
               nodeStatuses, edgeStates>>

pruneVars == <<preconditionOrder, original, result, shared, cleared, repruned>>

validateVars == <<validationMessages, requiredChecks>>

vars == <<pc, config, data, idx, pathVars, resolveVars, graphVars, pruneVars,
          validateVars>>

(***************************************************************************)
(* Bounds of the model.                                                    *)
(***************************************************************************)
\* the longest repeated group of a data tree
MaxItems == 2
\* the most workflow edges of a graph
MaxEdges == 3

(***************************************************************************)
(* Tokens.                                                                 *)
(***************************************************************************)
DigitStr == <<"0", "1", "2", "3", "4", "5", "6", "7", "8", "9">>

IndexTok(i) == DigitStr[i + 1]

Indexes == {DigitStr[i] : i \in 1..Len(DigitStr)}

\* own keys in JavaScript's enumeration order: integer keys ascending, then
\* the other keys in insertion order
KeyOrder == DigitStr \o <<"s", "a", "b", "c", "r", "t", "f", "g", "", "*", "$">>

\* !isNaN(prop): the token converts to a number (the empty string to 0)
IsNumeric(tok) == tok \in Indexes \cup {""}

\* dataPathToken.match(/\d/)
HasDigit(tok) == tok \in Indexes

\* lodash isIndex(key): the key is a non-negative integer
IsIndex(tok) == tok \in Indexes

Truthy(v) == v \notin {"FALSE", "", "UNDEF", "NULL"}

Last(s) == s[Len(s)]

Front(s) == SubSeq(s, 1, Len(s) - 1)

IsPrefix(p, q) == Len(p) <= Len(q) /\ SubSeq(q, 1, Len(p)) = p

(***************************************************************************)
(* Trees: lodash get / set and the pre-order walk of `traverse`.           *)
(***************************************************************************)
\* _.get(data, path)
Get(tree, p) ==
  IF p = <<>> THEN "UNDEF"
  ELSE IF p \in DOMAIN tree THEN tree[p] ELSE "UNDEF"

\* _.set(result, path, undefined): every proper prefix that is not an object
\* is replaced by a fresh [] or {} (by the kind of the next key), the value at
\* the path becomes undefined and what was below it is gone
SetUndefined(tree, p) ==
  IF p = <<>> THEN tree
  ELSE
    LET keep == {q \in DOMAIN tree :
                   /\ ~IsPrefix(p, q)
                   /\ \A i \in 1..(Len(p) - 1) :
                        (IsPrefix(SubSeq(p, 1, i), q) /\ q # SubSeq(p, 1, i))
                          => tree[SubSeq(p, 1, i)] \in {"OBJ", "ARR"}}
        pre  == {SubSeq(p, 1, i) : i \in 0..(Len(p) - 1)}
        dom  == keep \cup pre \cup {p}
    IN [q \in dom |->
          IF q = p THEN "UNDEF"
          ELSE IF q \in pre
            THEN IF q \in DOMAIN tree /\ tree[q] \in {"OBJ", "ARR"} THEN tree[q]
                 ELSE IF IsIndex(p[Len(q) + 1]) THEN "ARR" ELSE "OBJ"
          ELSE tree[q]]

RECURSIVE Walk(_, _)
RECURSIVE WalkKids(_, _, _)
\* traverse(tree).forEach: the paths of all nodes under p, p first
Walk(tree, p) ==
  <<p>> \o WalkKids(tree, p,
                    SelectSeq(KeyOrder, LAMBDA k : Append(p, k) \in DOMAIN tree))

WalkKids(tree, p, ks) ==
  IF ks = <<>> THEN <<>>
  ELSE Walk(tree, Append(p, Head(ks))) \o WalkKids(tree, p, Tail(ks))

\* traverse's this.isLeaf: the node has no own keys
IsLeaf(tree, p) == \A q \in DOMAIN tree : ~(Len(q) = Len(p) + 1 /\ IsPrefix(p, q))

(***************************************************************************)
(* path-utils                                                              *)
(***************************************************************************)
\* path.replace('$.', '') on a dotted string
StripRef(s) == IF Len(s) >= 2 /\ s[1] = "$" THEN Tail(s) ELSE s

\* matches in which '*' stands for no token but itself
matchesNoWildcard(rp, dp) ==
  /\ Len(rp) = Len(dp)
  /\ \A i \in 1..Len(rp) : dp[i] = rp[i]

matches(rp, dp) ==
  /\ Len(rp) = Len(dp)
  /\ \A i \in 1..Len(rp) :
       \/ dp[i] = rp[i]
       \/ (rp[i] = "*" /\ HasDigit(dp[i]))

getDataPathsForRefPath(path, tree) ==
  SelectSeq(Walk(tree, <<>>), LAMBDA p : matches(StripRef(path), p))

getRefPathForDataPath(dp) ==
  LET full == <<"$">> \o [i \in 1..Len(dp) |->
                            IF IsNumeric(dp[i]) THEN "*" ELSE dp[i]]
  IN IF Len(full) >= 2 /\ Last(full) = "*" THEN Front(full) ELSE full

(***************************************************************************)
(* resolver.  An expression is a record: k = "ref" is a string starting    *)
(* with '$.' (p its tokens, "$" first), k = "value" is the string          *)
(* '$value', k = "lit" is any other string or a boolean (v), k = "fn" is   *)
(* a mapping {fn: v, args: args}.  A target path is a record: k = "none"   *)
(* is undefined, k = "null" is null, k = "arr" an array of tokens,          *)
(* k = "str" a dotted string.  "THROWS" stands for a TypeError thrown.     *)
(***************************************************************************)
Ref(p) == [k |-> "ref", p |-> p, v |-> "", args |-> <<>>]

ValueOfTarget == [k |-> "value", p |-> <<>>, v |-> "$value", args |-> <<>>]

Lit(v) == [k |-> "lit", p |-> <<>>, v |-> v, args |-> <<>>]

Fn(name, args) == [k |-> "fn", p |-> <<>>, v |-> name, args |-> args]

NoTarget == [k |-> "none", p |-> <<>>]

NullTarget == [k |-> "null", p |-> <<>>]

ArrTarget(p) == [k |-> "arr", p |-> p]

StrTarget(p) == [k |-> "str", p |-> p]

\* the capabilities of the function context the caller supplies
ContextFns == {"pass", "fail", "truthy", "not"}

\* context[name].apply(null, args)
Apply(name, args) ==
  CASE name = "pass" -> "TRUE"
    [] name = "fail" -> "FALSE"
    [] name = "truthy" -> IF Len(args) > 0 /\ Truthy(args[1]) THEN "TRUE" ELSE "FALSE"
    [] OTHER -> IF Len(args) > 0 /\ Truthy(args[1]) THEN "FALSE" ELSE "TRUE"

\* string[i], the character at index i (from 0) of the dotted string of tokens s
CharAt(s, i) ==
  IF s = <<>> \/ i >= 2 * Len(s) - 1 THEN "UNDEF"
  ELSE IF i % 2 = 0 THEN s[(i \div 2) + 1] ELSE "."

\* targetPath[index]
TargetAt(tp, i) ==
  CASE tp.k = "arr" -> IF i < Len(tp.p) THEN tp.p[i + 1] ELSE "UNDEF"
    [] tp.k = "str" -> CharAt(tp.p, i)
    [] OTHER -> "UNDEF"

\* whether a target path is truthy: an array always, a string unless empty
TargetGiven(tp) == tp.k = "arr" \/ (tp.k = "str" /\ tp.p # <<>>)

RECURSIVE RelativeFrom(_, _, _)
\* the tokens, from index i on, of the string that map(...).join('.') gives:
\* undefined joins as the empty string, and a '.' put in place of a '^' splits
\* into two empty tokens
RelativeFrom(s, i, tp) ==
  IF i > Len(s) THEN <<>>
  ELSE LET t == IF s[i] = "^" THEN TargetAt(tp, i - 1) ELSE s[i]
           here == IF t = "UNDEF" THEN <<"">>
                   ELSE IF t = "." THEN <<"", "">> ELSE <<t>>
       IN here \o RelativeFrom(s, i + 1, tp)

applyRelativeIndexes(pathStr, tp) == RelativeFrom(pathStr, 1, tp)

\* collectArrayValues returns an array
collectArrayValues(pathStr, tree) == "ARR"

Contains(s, tok) == \E i \in 1..Len(s) : s[i] = tok

resolveString(e, tree, tp) ==
  IF e.k = "value" /\ TargetGiven(tp) THEN Get(tree, tp.p)
  ELSE IF e.k = "ref" /\ Contains(e.p, "^") /\ tp.k = "null" THEN "THROWS"
  ELSE IF e.k = "ref" THEN
    LET pathStr == IF Contains(e.p, "^")
                     THEN <<"$">> \o applyRelativeIndexes(StripRef(e.p), tp)
                     ELSE e.p
    IN IF Contains(pathStr, "*") THEN collectArrayValues(pathStr, tree)
       ELSE Get(tree, StripRef(pathStr))
  ELSE e.v

RECURSIVE resolve(_, _, _)
resolve(e, tree, tp) ==
  IF e.k = "fn" THEN
    IF e.v \in ContextFns
      THEN Apply(e.v, [i \in 1..Len(e.args) |-> resolve(e.args[i], tree, tp)])
      ELSE "OBJ"
  ELSE resolveString(e, tree, tp)

(***************************************************************************)
(* The data trees of the model: one section "s" with static fields, a      *)
(* repeated group "r" of objects and an array "t" of scalars.              *)
(***************************************************************************)
Absent == "ABSENT"

\* the tree with the given leaves (a function from paths to tags); an inner
\* node is an array when its keys are indexes, an object otherwise
MkTree(leaves) ==
  LET dom == UNION {{SubSeq(q, 1, i) : i \in 0..Len(q)} : q \in DOMAIN leaves}
  IN [q \in dom |->
        IF q \in DOMAIN leaves THEN leaves[q]
        ELSE IF \E l \in DOMAIN leaves :
                  l # q /\ IsPrefix(q, l) /\ IsIndex(l[Len(q) + 1])
          THEN "ARR" ELSE "OBJ"]

\* an optional array: missing, or present with elements xs
NoArray == [has |-> FALSE, xs |-> <<>>]

ArrayOf(xs) == [has |-> TRUE, xs |-> xs]

SeqsUpTo(S, n) == UNION {[1..m -> S] : m \in 0..n}

Arrays(S) == {NoArray} \cup {ArrayOf(xs) : xs \in SeqsUpTo(S, MaxItems)}

IndexOfTok(tok) == CHOOSE i \in 0..9 : IndexTok(i) = tok

\* the leaves of section "s": statics maps each static key to a scalar or
\* Absent, items is the optional group "r" (each item a map from item keys to
\* a scalar or Absent), scalars is the optional array "t"
Leaves(statics, items, scalars) ==
  LET st == {<<"s", k>> : k \in {k \in DOMAIN statics : statics[k] # Absent}}
      it == IF ~items.has THEN {}
            ELSE IF items.xs = <<>> THEN {<<"s", "r">>}
            ELSE UNION {{<<"s", "r", IndexTok(i - 1)>>} \cup
                        {<<"s", "r", IndexTok(i - 1), k>> :
                           k \in {k \in DOMAIN items.xs[i] : items.xs[i][k] # Absent}}
                        : i \in 1..Len(items.xs)}
      sc == IF ~scalars.has THEN {}
            ELSE IF scalars.xs = <<>> THEN {<<"s", "t">>}
            ELSE {<<"s", "t", IndexTok(i - 1)>> : i \in 1..Len(scalars.xs)}
      inner(q) == \E l \in st \cup it \cup sc : l # q /\ IsPrefix(q, l)
  IN [q \in {<<"s">>} \cup {l \in st \cup it \cup sc : ~inner(l)} |->
        IF q = <<"s">> THEN "OBJ"
        ELSE IF q = <<"s", "r">> \/ q = <<"s", "t">> THEN "ARR"
        ELSE IF Len(q) = 2 THEN statics[q[2]]
        ELSE IF q[2] = "t" THEN scalars.xs[1 + IndexOfTok(q[3])]
        ELSE IF Len(q) = 3 THEN "OBJ"
        ELSE items.xs[1 + IndexOfTok(q[3])][q[4]]]

Trees(statKeys, statVals, itemKeys, itemVals, scalarVals) ==
  {MkTree(Leaves(st, it, sc)) :
     st \in [statKeys -> statVals],
     it \in Arrays([itemKeys -> itemVals]),
     sc \in IF scalarVals = {} THEN {NoArray} ELSE Arrays(scalarVals)}

(***************************************************************************)
(* SpecPath: getRefPathForDataPath, then getDataPathsForRefPath of its     *)
(* result, for every path of every tree.                                   *)
(***************************************************************************)
\* the static key "" is an object key that converts to a number
PathTrees == Trees({"a", ""}, {"v", Absent}, {"f"}, {"v", Absent}, {"v", ""})

PathIdle == dataPath = <<>> /\ refPath = <<>> /\ paths = <<>>

PruneIdle ==
  /\ preconditionOrder = <<>>
  /\ original = <<>>
  /\ result = <<>>
  /\ shared = FALSE
  /\ cleared = <<>>
  /\ repruned = <<>>
  /\ validationMessages = <<>>
  /\ requiredChecks = <<>>

GraphIdle ==
  /\ sectionStates = <<>>
  /\ nodeEvaluationOrder = <<>>
  /\ frontierFound = FALSE
  /\ nodeStatuses = <<>>
  /\ edgeStates = <<>>

ResolveIdle == resolvable = Lit("") /\ targetPath = NoTarget /\ resolved = ""

PathInit ==
  /\ pc = "start"
  /\ config = <<>>
  /\ data \in PathTrees
  /\ dataPath \in DOMAIN data
  /\ refPath = <<>>
  /\ paths = <<>>
  /\ idx = 0
  /\ ResolveIdle
  /\ GraphIdle
  /\ PruneIdle

ToRefPath ==
  /\ pc = "start"
  /\ refPath' = getRefPathForDataPath(dataPath)
  /\ pc' = "pattern"
  /\ UNCHANGED <<config, data, idx, dataPath, paths, resolveVars, graphVars, pruneVars, validateVars>>

ToDataPaths ==
  /\ pc = "pattern"
  /\ paths' = getDataPathsForRefPath(refPath, data)
  /\ pc' = "done"
  /\ UNCHANGED <<config, data, idx, dataPath, refPath, resolveVars, graphVars, pruneVars, validateVars>>

PathNext == ToRefPath \/ ToDataPaths

SpecPath == PathInit /\ [][PathNext]_vars

InSeq(x, s) == \E i \in 1..Len(s) : s[i] = x

\* the array tokens of the path are non-negative integers and its object keys
\* are names that do not convert to a number
OrdinaryTokens(p) == \A i \in 1..Len(p) : IsNumeric(p[i]) => IsIndex(p[i])

\* C6 as stated: for every concrete path p that exists in the tree and whose
\* array tokens are non-negative integers, also when its final token is an
\* array index, getDataPathsForRefPath(getRefPathForDataPath(p), tree)
\* contains p.
C6_RoundTripAnyPath ==
  (pc = "done" /\ dataPath # <<>> /\ OrdinaryTokens(dataPath))
    => InSeq(dataPath, paths)

\* C6 amended: the round trip contains p when p's final token is not an array
\* index; when it is, the trailing '.*' of the pattern is dropped and the
\* round trip contains the path of the array holding p, and not p.
C6_RoundTripNonIndexLeaf ==
  (pc = "done" /\ dataPath # <<>> /\ OrdinaryTokens(dataPath))
    => IF IsIndex(Last(dataPath))
         THEN InSeq(Front(dataPath), paths) /\ ~InSeq(dataPath, paths)
         ELSE InSeq(dataPath, paths)

\* a field of an item of the repeated group is found again, among the same
\* field of the other items
C6_Witness ==
  /\ pc = "done"
  /\ Len(dataPath) = 4
  /\ IsIndex(dataPath[3])
  /\ refPath = <<"$", "s", "r", "*", "f">>
  /\ InSeq(dataPath, paths)
  /\ Len(paths) >= 2

(***************************************************************************)
(* SpecResolve: one call resolve(resolvable, data, context, targetPath).   *)
(***************************************************************************)
ResolveTrees == Trees({"a"}, {"v", "", Absent}, {"f"}, {"v", ""}, {})

ResolveExprs ==
  {ValueOfTarget, Lit("v"), Lit("TRUE"), Lit("FALSE"),
   Ref(<<"$", "s", "a">>), Ref(<<"$", "s", "r", "^", "f">>),
   Ref(<<"$", "s", "r", "*", "f">>),
   Fn("truthy", <<ValueOfTarget>>), Fn("not", <<Ref(<<"$", "s", "a">>)>>),
   Fn("unknown", <<ValueOfTarget>>)}

ResolveTargets(tree) ==
  {NoTarget, NullTarget}
    \cup {ArrTarget(p) : p \in DOMAIN tree}
    \cup {StrTarget(p) : p \in DOMAIN tree \ {<<>>}}

ResolveInit ==
  /\ pc = "start"
  /\ config = <<>>
  /\ data \in ResolveTrees
  /\ resolvable \in ResolveExprs
  /\ targetPath \in ResolveTargets(data)
  /\ resolved = ""
  /\ idx = 0
  /\ PathIdle
  /\ GraphIdle
  /\ PruneIdle

Resolve ==
  /\ pc = "start"
  /\ resolved' = resolve(resolvable, data, targetPath)
  /\ pc' = "resolved"
  /\ UNCHANGED <<config, data, idx, resolvable, targetPath, pathVars, graphVars, pruneVars, validateVars>>

ResolveNext == Resolve

SpecResolve == ResolveInit /\ [][ResolveNext]_vars

\* C7: resolving the string '$value' with no target path (undefined or null)
\* does not fail and returns undefined.
C7_ValueWithoutTargetIsUndefined ==
  (pc = "resolved" /\ resolvable = ValueOfTarget /\ targetPath.k \in {"none", "null"})
    => resolved = "UNDEF"

(***************************************************************************)
(* toposort(edges), the library's depth-first sort: for an edge <<a, b>>   *)
(* a comes before b in the result; a cycle is an error.                    *)
(***************************************************************************)
RECURSIVE uniqueNodes(_)
uniqueNodes(edgeList) ==
  IF edgeList = <<>> THEN <<>>
  ELSE LET rest == uniqueNodes(Front(edgeList))
           e == Last(edgeList)
           one == IF InSeq(e[1], rest) THEN rest ELSE Append(rest, e[1])
       IN IF InSeq(e[2], one) THEN one ELSE Append(one, e[2])

Outgoing(edgeList, node) ==
  LET mine == SelectSeq(edgeList, LAMBDA e : e[1] = node)
  IN [i \in 1..Len(mine) |-> mine[i][2]]

RECURSIVE visit(_, _, _, _)
RECURSIVE visitAll(_, _, _, _)
\* st: the nodes visited, the sorted array (filled from its end) and whether
\* 'Cyclic dependency' was thrown
visit(edgeList, node, predecessors, st) ==
  IF st.err THEN st
  ELSE IF node \in predecessors THEN [st EXCEPT !.err = TRUE]
  ELSE IF node \in st.visited THEN st
  ELSE LET after == visitAll(edgeList, Outgoing(edgeList, node),
                             predecessors \cup {node},
                             [st EXCEPT !.visited = @ \cup {node}])
       IN IF after.err THEN after
          ELSE [after EXCEPT !.sorted = <<node>> \o @]

\* the children are visited from the last outgoing edge to the first
visitAll(edgeList, children, predecessors, st) ==
  IF children = <<>> THEN st
  ELSE visitAll(edgeList, Front(children), predecessors,
                visit(edgeList, Last(children), predecessors, st))

toposort(edgeList) ==
  visitAll(edgeList, uniqueNodes(edgeList), {},
           [visited |-> {}, sorted |-> <<>>, err |-> FALSE])

Reverse(s) == [i \in 1..Len(s) |-> s[Len(s) + 1 - i]]

(***************************************************************************)
(* The config index (DataDescriptor): nodes in traversal order, each a     *)
(* record, and the workflow edges.                                         *)
(***************************************************************************)
\* a configuration node; hasPre says whether it carries preconditions, and
\* required and validations are lists of [e |-> expression, message |-> text]
ConfigNode(id, path, type, hasPre, preconditions, required, validations, output) ==
  [id |-> id, path |-> path, type |-> type, hasPre |-> hasPre,
   preconditions |-> preconditions, required |-> required,
   validations |-> validations, output |-> output]

\* what getConfigNodeByPath gives for a path that has no node: undefined
NoNode == ConfigNode("", <<>>, "undefined", FALSE, <<>>, <<>>, <<>>, Lit(""))

getConfigNodeByPath(cfg, rp) ==
  IF \E i \in 1..Len(cfg.nodes) : cfg.nodes[i].path = rp
    THEN cfg.nodes[CHOOSE i \in 1..Len(cfg.nodes) :
                     /\ cfg.nodes[i].path = rp
                     /\ \A j \in 1..(i - 1) : cfg.nodes[j].path # rp]
    ELSE NoNode

(***************************************************************************)
(* evaluateEdgeStates                                                      *)
(***************************************************************************)
isTerminalNodePath(path) == path = "START" \/ path = "END"

getNodeEvaluationOrder(edges) ==
  LET sorted == toposort(<<<<"END", "START">>>> \o
                         [i \in 1..Len(edges) |-> <<edges[i].to, edges[i].from>>])
  IN [sorted EXCEPT !.sorted = Reverse(@)]

\* the reduce callback whose frontier is never raised
NodeStatusNoFrontier(cfg, tree, states, memo, nodePath) ==
  IF isTerminalNodePath(nodePath)
    THEN [memo EXCEPT !.statuses = (nodePath :> "active") @@ @]
  ELSE LET node == getConfigNodeByPath(cfg, <<"$", nodePath>>)
       IN IF node.type = "input_section"
            THEN [memo EXCEPT !.statuses =
                    (nodePath :> (IF states[node.id] = "valid" THEN "active"
                                  ELSE "inactive")) @@ @]
            ELSE [memo EXCEPT !.statuses =
                    (nodePath :> resolve(node.output, tree, NullTarget)) @@ @]

\* one call of the reduce callback of evaluateEdgeStates; memo holds the
\* statuses so far and the closed-over frontierFound
NodeStatus(cfg, tree, states, memo, nodePath) ==
  IF isTerminalNodePath(nodePath)
    THEN [memo EXCEPT !.statuses = (nodePath :> "active") @@ @]
  ELSE LET node == getConfigNodeByPath(cfg, <<"$", nodePath>>)
       IN IF memo.frontierFound
            THEN [memo EXCEPT !.statuses = (nodePath :> "inactive") @@ @]
          ELSE IF node.type = "input_section"
            THEN IF states[node.id] = "valid"
                   THEN [memo EXCEPT !.statuses = (nodePath :> "active") @@ @]
                   ELSE [statuses |-> (nodePath :> "inactive") @@ memo.statuses,
                         frontierFound |-> TRUE]
          ELSE [memo EXCEPT !.statuses =
                  (nodePath :> resolve(node.output, tree, NullTarget)) @@ @]

\* the map callback of evaluateEdgeStates: the edge with its status
EdgeStatus(cfg, statuses, edge) ==
  LET status == statuses[edge.from]
      fromNode == getConfigNodeByPath(cfg, <<"$", edge.from>>)
  IN IF fromNode.type = "decision" /\ status # "inactive"
       THEN IF Truthy(status)
              THEN (IF Truthy(edge.when_input_is) THEN "active" ELSE "inactive")
              ELSE (IF Truthy(edge.when_input_is) THEN "inactive" ELSE "active")
       ELSE status

(***************************************************************************)
(* SpecGraph: evaluateEdgeStates over the workflow graphs of three nodes,  *)
(* each an input section (valid or invalid) or a decision.                 *)
(***************************************************************************)
WorkflowIds == <<"s", "u", "w">>

Edge(from, to, when) == [from |-> from, to |-> to, when_input_is |-> when]

CandidateEdges ==
  << Edge("START", "s", "UNDEF"), Edge("s", "u", "TRUE"), Edge("s", "w", "FALSE"),
     Edge("u", "w", "TRUE"), Edge("u", "END", "FALSE"), Edge("w", "END", "UNDEF"),
     Edge("START", "u", "UNDEF"), Edge("w", "u", "TRUE") >>

\* the elements of s at the indexes in S, in s's order
Pick(s, S) ==
  LET F[i \in 0..Len(s)] ==
        IF i = 0 THEN <<>>
        ELSE IF i \in S THEN Append(F[i - 1], s[i]) ELSE F[i - 1]
  IN F[Len(s)]

EdgeLists ==
  {Pick(CandidateEdges, S) :
     S \in {T \in SUBSET (1..Len(CandidateEdges)) : Cardinality(T) <= MaxEdges}}

DecisionOutputs ==
  {Ref(<<"$", "s", "a">>), Fn("not", <<Ref(<<"$", "s", "a">>)>>)}

WorkflowNode(id, type, output) ==
  ConfigNode(id, <<"$", id>>, type, FALSE, <<>>, <<>>, <<>>, output)

WorkflowNodes(id) ==
  {WorkflowNode(id, "input_section", Lit(""))}
    \cup {WorkflowNode(id, "decision", o) : o \in DecisionOutputs}

GraphTrees == {MkTree(<<"s", "a">> :> x) : x \in {"TRUE", "FALSE", "inactive"}}

GraphInit ==
  /\ pc = "start"
  /\ \E ns \in [1..Len(WorkflowIds) -> UNION {WorkflowNodes(WorkflowIds[i]) :
                                               i \in 1..Len(WorkflowIds)}] :
       /\ \A i \in 1..Len(WorkflowIds) : ns[i].id = WorkflowIds[i]
       /\ \E es \in EdgeLists : config = [nodes |-> ns, edges |-> es]
  /\ data \in GraphTrees
  /\ sectionStates \in [{WorkflowIds[i] : i \in 1..Len(WorkflowIds)} ->
                          {"valid", "invalid"}]
  /\ \A i \in 1..Len(config.nodes) :
       config.nodes[i].type = "decision" => sectionStates[config.nodes[i].id] = "valid"
  /\ nodeEvaluationOrder = <<>>
  /\ idx = 0
  /\ frontierFound = FALSE
  /\ nodeStatuses = <<>>
  /\ edgeStates = <<>>
  /\ PathIdle
  /\ ResolveIdle
  /\ PruneIdle

\* toposort throws 'Cyclic dependency'
OrderFails ==
  /\ pc = "start"
  /\ getNodeEvaluationOrder(config.edges).err
  /\ pc' = "error"
  /\ UNCHANGED <<config, data, idx, pathVars, resolveVars, graphVars, pruneVars, validateVars>>

OrderNodes ==
  /\ pc = "start"
  /\ ~getNodeEvaluationOrder(config.edges).err
  /\ nodeEvaluationOrder' = getNodeEvaluationOrder(config.edges).sorted
  /\ idx' = 1
  /\ pc' = "nodes"
  /\ UNCHANGED <<config, data, pathVars, resolveVars, pruneVars, validateVars, sectionStates,
                 frontierFound, nodeStatuses, edgeStates>>

EvaluateNode ==
  /\ pc = "nodes"
  /\ idx <= Len(nodeEvaluationOrder)
  /\ LET memo == NodeStatus(config, data, sectionStates,
                            [statuses |-> nodeStatuses,
                             frontierFound |-> frontierFound],
                            nodeEvaluationOrder[idx])
     IN /\ nodeStatuses' = memo.statuses
        /\ frontierFound' = memo.frontierFound
  /\ idx' = idx + 1
  /\ UNCHANGED <<pc, config, data, pathVars, resolveVars, pruneVars, validateVars,
                 sectionStates, nodeEvaluationOrder, edgeStates>>

EvaluateEdges ==
  /\ pc = "nodes"
  /\ idx > Len(nodeEvaluationOrder)
  /\ edgeStates' = [i \in 1..Len(config.edges) |->
                      EdgeStatus(config, nodeStatuses, config.edges[i])]
  /\ pc' = "done"
  /\ UNCHANGED <<config, data, idx, pathVars, resolveVars, pruneVars, validateVars,
                 sectionStates, nodeEvaluationOrder, frontierFound, nodeStatuses>>

GraphNext == OrderFails \/ OrderNodes \/ EvaluateNode \/ EvaluateEdges

SpecGraph == GraphInit /\ [][GraphNext]_vars

PositionOf(x, s) == CHOOSE i \in 1..Len(s) : s[i] = x

WorkflowNodeOf(nodePath) == getConfigNodeByPath(config, <<"$", nodePath>>)

\* the node is an input section whose section status is invalid
InvalidSection(nodePath) ==
  /\ ~isTerminalNodePath(nodePath)
  /\ WorkflowNodeOf(nodePath).type = "input_section"
  /\ sectionStates[WorkflowNodeOf(nodePath).id] = "invalid"

\* an invalid input section stands in the evaluation order before position i
AfterInvalidSection(i) ==
  \E j \in 1..(i - 1) : InvalidSection(nodeEvaluationOrder[j])

\* the node is an invalid input section or a non-terminal node evaluated
\* after one
Blocked(nodePath) ==
  /\ ~isTerminalNodePath(nodePath)
  /\ \/ InvalidSection(nodePath)
     \/ AfterInvalidSection(PositionOf(nodePath, nodeEvaluationOrder))

\* C1: an invalid input section is inactive, every non-terminal node evaluated
\* after it is inactive and every edge leaving such a node is inactive, while
\* START and END and the edges leaving START stay active.
C1_FrontierPropagation ==
  pc = "done" =>
    /\ \A i \in 1..Len(nodeEvaluationOrder) :
         Blocked(nodeEvaluationOrder[i])
           => nodeStatuses[nodeEvaluationOrder[i]] = "inactive"
    /\ \A k \in 1..Len(config.edges) :
         /\ Blocked(config.edges[k].from) => edgeStates[k] = "inactive"
         /\ config.edges[k].from = "START" => edgeStates[k] = "active"
    /\ nodeStatuses["START"] = "active"
    /\ nodeStatuses["END"] = "active"

\* the spec's example: START -> s (invalid) -> u -> END
C1_Witness ==
  /\ pc = "done"
  /\ config.edges = <<Edge("START", "s", "UNDEF"), Edge("s", "u", "TRUE"),
                      Edge("u", "END", "FALSE")>>
  /\ WorkflowNodeOf("s").type = "input_section"
  /\ WorkflowNodeOf("u").type = "input_section"
  /\ sectionStates["s"] = "invalid"
  /\ sectionStates["u"] = "valid"
  /\ nodeEvaluationOrder = <<"START", "s", "u", "END">>
  /\ nodeStatuses["s"] = "inactive"
  /\ nodeStatuses["u"] = "inactive"
  /\ edgeStates = <<"active", "inactive", "inactive">>

\* C2: an edge leaving a decision node evaluated before any frontier is active
\* iff the truthiness of the decision's resolved output equals the edge's
\* when_input_is tag; an edge leaving a decision node evaluated after the
\* frontier is inactive whatever its tag.
C2_DecisionBranching ==
  pc = "done" =>
    \A k \in 1..Len(config.edges) :
      LET e == config.edges[k]
          d == WorkflowNodeOf(e.from)
          output == resolve(d.output, data, NullTarget)
      IN (d.type = "decision" /\ e.when_input_is \in {"TRUE", "FALSE"}) =>
           IF AfterInvalidSection(PositionOf(e.from, nodeEvaluationOrder))
             THEN edgeStates[k] = "inactive"
             ELSE (edgeStates[k] = "active")
                    <=> (Truthy(output) <=> (e.when_input_is = "TRUE"))

(***************************************************************************)
(* orderPreconditions, pruneData, preconditionsMet                         *)
(***************************************************************************)
RECURSIVE ConcatAll(_)
ConcatAll(ss) == IF ss = <<>> THEN <<>> ELSE Head(ss) \o ConcatAll(Tail(ss))

RECURSIVE RefStrings(_)
\* traverse(e).forEach with isRefString: the strings of e that start with
\* '$.', in traversal order
RefStrings(e) ==
  IF e.k = "ref" THEN <<e.p>>
  ELSE IF e.k = "fn"
    THEN ConcatAll([i \in 1..Len(e.args) |-> RefStrings(e.args[i])])
  ELSE <<>>

\* the pairs [dependantPath, preconNode] that orderPreconditions collects
Dependencies(cfg) ==
  ConcatAll([i \in 1..Len(cfg.nodes) |->
    IF cfg.nodes[i].hasPre
      THEN LET refs == ConcatAll([j \in 1..Len(cfg.nodes[i].preconditions) |->
                                    RefStrings(cfg.nodes[i].preconditions[j])])
           IN [j \in 1..Len(refs) |-> <<cfg.nodes[i].path, refs[j]>>]
      ELSE <<>>])

\* orderPreconditions that returns toposort's order as it is
OrderNotReversed(cfg) == toposort(Dependencies(cfg))

orderPreconditions(cfg) ==
  LET sorted == toposort(Dependencies(cfg))
  IN [sorted EXCEPT !.sorted = Reverse(@)]

isRefString(e) == e.k = "ref"

preconditionsMet(configNode, tree, tp) ==
  IF ~configNode.hasPre THEN TRUE
  ELSE \A i \in 1..Len(configNode.preconditions) :
         Truthy(resolve(configNode.preconditions[i], tree, tp))

\* a result that is the caller's own object
NoClone(tree) == [tree |-> tree, shared |-> TRUE]

\* _.cloneDeep(data): a fresh copy, which shares nothing with data
cloneDeep(tree) == [tree |-> tree, shared |-> FALSE]

RECURSIVE PrunePaths(_, _, _, _, _)
\* the inner forEach of pruneData from the i-th matched path on.  st holds
\* the caller's data, the result, whether they are one object, the paths
\* cleared so far and whether a TypeError was thrown (no node for the dep)
PrunePaths(st, cfg, dep, matched, i) ==
  IF st.err \/ i > Len(matched) THEN st
  ELSE IF getConfigNodeByPath(cfg, dep) = NoNode THEN [st EXCEPT !.err = TRUE]
  ELSE IF preconditionsMet(getConfigNodeByPath(cfg, dep), st.data,
                           ArrTarget(matched[i]))
    THEN PrunePaths(st, cfg, dep, matched, i + 1)
  ELSE LET new == SetUndefined(st.result, matched[i])
       IN PrunePaths([st EXCEPT !.result = new,
                                !.data = IF st.shared THEN new ELSE @,
                                !.cleared = Append(@, matched[i])],
                     cfg, dep, matched, i + 1)

\* one call of the outer forEach callback of pruneData
PruneDep(st, cfg, dep) ==
  PrunePaths(st, cfg, dep, getDataPathsForRefPath(dep, st.data), 1)

RECURSIVE PruneDeps(_, _, _, _)
PruneDeps(st, cfg, depOrder, i) ==
  IF st.err \/ i > Len(depOrder) THEN st
  ELSE PruneDeps(PruneDep(st, cfg, depOrder[i]), cfg, depOrder, i + 1)

PruneStart(tree) ==
  [data |-> tree, result |-> cloneDeep(tree).tree, shared |-> cloneDeep(tree).shared,
   cleared |-> <<>>, err |-> FALSE]

pruneData(tree, cfg, depOrder) == PruneDeps(PruneStart(tree), cfg, depOrder, 1)

(***************************************************************************)
(* SpecPrune: the engine is constructed over a configuration of section    *)
(* "s" and pruneData runs on the caller's data, one dependency a step;     *)
(* then it runs once more on its own result.                               *)
(***************************************************************************)
NoPre == [has |-> FALSE, list |-> <<>>]

Pre(list) == [has |-> TRUE, list |-> list]

Field(path, pre) ==
  ConfigNode("", path, "field", pre.has, pre.list, <<>>, <<>>, Lit(""))

SectionNode == ConfigNode("s", <<"$", "s">>, "input_section", FALSE, <<>>, <<>>, <<>>, Lit(""))

pA == <<"$", "s", "a">>
pB == <<"$", "s", "b">>
pC == <<"$", "s", "c">>
pR == <<"$", "s", "r">>
pRF == <<"$", "s", "r", "*", "f">>
pRG == <<"$", "s", "r", "*", "g">>
pRelG == <<"$", "s", "r", "^", "g">>

PreOfA == {NoPre, Pre(<<Ref(pB)>>), Pre(<<Ref(pRF)>>), Pre(<<Ref(pA)>>),
           Pre(<<Fn("truthy", <<ValueOfTarget>>)>>)}
PreOfB == {NoPre, Pre(<<Ref(pC)>>), Pre(<<Ref(pA)>>), Pre(<<Fn("not", <<Ref(pC)>>)>>)}
PreOfR == {NoPre, Pre(<<Ref(pC)>>)}
PreOfRF == {NoPre, Pre(<<Ref(pRelG)>>), Pre(<<Ref(pC)>>)}

\* the configurations: the section, its fields a, b, (c), the group r and the
\* fields f and g of its items
PruneConfigs ==
  {[nodes |-> <<SectionNode, Field(pA, a), Field(pB, b)>>
                \o (IF c THEN <<Field(pC, NoPre)>> ELSE <<>>)
                \o <<Field(pR, r), Field(pRF, f), Field(pRG, NoPre)>>,
    edges |-> <<>>] :
     a \in PreOfA, b \in PreOfB, c \in BOOLEAN, r \in PreOfR, f \in PreOfRF}

PruneTrees ==
  {MkTree(Leaves(st, it, NoArray)) :
     st \in {f \in [{"a", "b", "c"} -> {"v", "", Absent}] :
               f["a"] # Absent /\ f["b"] # Absent},
     it \in Arrays({g \in [{"f", "g"} -> {"v", ""}] : g["f"] = "v"})}

PruneInit ==
  /\ pc = "start"
  /\ config \in PruneConfigs
  /\ data \in PruneTrees
  /\ original = data
  /\ idx = 0
  /\ preconditionOrder = <<>>
  /\ result = <<>>
  /\ shared = FALSE
  /\ cleared = <<>>
  /\ repruned = <<>>
  /\ validationMessages = <<>>
  /\ requiredChecks = <<>>
  /\ PathIdle
  /\ ResolveIdle
  /\ GraphIdle

\* new DataEngine(config): toposort throws 'Cyclic dependency'
ConstructFails ==
  /\ pc = "start"
  /\ orderPreconditions(config).err
  /\ pc' = "configError"
  /\ UNCHANGED <<config, data, idx, pathVars, resolveVars, graphVars, pruneVars, validateVars>>

Construct ==
  /\ pc = "start"
  /\ ~orderPreconditions(config).err
  /\ preconditionOrder' = orderPreconditions(config).sorted
  /\ pc' = "ready"
  /\ UNCHANGED <<config, data, idx, pathVars, resolveVars, graphVars, validateVars,
                 original, result, shared, cleared, repruned>>

\* pruneData: const result = cloneDeep(data)
PruneBegin ==
  /\ pc = "ready"
  /\ result' = PruneStart(data).result
  /\ shared' = PruneStart(data).shared
  /\ idx' = 1
  /\ pc' = "pruning"
  /\ UNCHANGED <<config, data, pathVars, resolveVars, graphVars, validateVars,
                 preconditionOrder, original, cleared, repruned>>

\* pruneData: one dependency of depOrder.forEach
PruneOne ==
  /\ pc = "pruning"
  /\ idx <= Len(preconditionOrder)
  /\ LET st == PruneDep([data |-> data, result |-> result, shared |-> shared,
                         cleared |-> cleared, err |-> FALSE],
                        config, preconditionOrder[idx])
     IN /\ data' = st.data
        /\ result' = st.result
        /\ cleared' = st.cleared
        /\ pc' = IF st.err THEN "typeError" ELSE "pruning"
  /\ idx' = idx + 1
  /\ UNCHANGED <<config, pathVars, resolveVars, graphVars, validateVars,
                 preconditionOrder, original, shared, repruned>>

\* pruneData: return result
PruneEnd ==
  /\ pc = "pruning"
  /\ idx > Len(preconditionOrder)
  /\ pc' = "pruned"
  /\ UNCHANGED <<config, data, idx, pathVars, resolveVars, graphVars, pruneVars, validateVars>>

\* pruneData on the pruned data, with the same configuration and order
PruneAgain ==
  /\ pc = "pruned"
  /\ LET st == pruneData(result, config, preconditionOrder)
     IN /\ repruned' = st.result
        /\ pc' = IF st.err THEN "typeError" ELSE "repruned"
  /\ UNCHANGED <<config, data, idx, pathVars, resolveVars, graphVars, validateVars,
                 preconditionOrder, original, result, shared, cleared>>

PruneNext ==
  ConstructFails \/ Construct \/ PruneBegin \/ PruneOne \/ PruneEnd \/ PruneAgain

SpecPrune == PruneInit /\ [][PruneNext]_vars

SeqToSet(q) == {q[i] : i \in 1..Len(q)}

\* the ref-path strings found anywhere inside the preconditions of a node
RefsInside(node) ==
  UNION {SeqToSet(RefStrings(node.preconditions[j])) :
           j \in 1..Len(node.preconditions)}

\* the pairs <<P, R>>: P is the path of a node with preconditions, R a
\* ref-path string found inside them ("P after R")
AfterRelation ==
  UNION {{<<config.nodes[i].path, r>> : r \in RefsInside(config.nodes[i])} :
           i \in {n \in 1..Len(config.nodes) : config.nodes[n].hasPre}}

RECURSIVE Closure(_, _)
Closure(R, n) ==
  IF n = 0 THEN R
  ELSE Closure(R \cup {<<x[1][1], x[2][2]>> :
                         x \in {y \in R \X R : y[1][2] = y[2][1]}}, n - 1)

Cyclic(R) == \E x \in Closure(R, Cardinality(R)) : x[1] = x[2]

\* C9: orderPreconditions fails when the 'P after R' relations contain a
\* cycle (a node that references its own path included); otherwise it
\* returns an order in which every R stands before its P and no path stands
\* twice.
C9_OrderRespectsPreconditions ==
  /\ pc = "configError" => Cyclic(AfterRelation)
  /\ pc \notin {"start", "configError"} =>
       /\ ~Cyclic(AfterRelation)
       /\ \A d \in AfterRelation :
            /\ InSeq(d[1], preconditionOrder)
            /\ InSeq(d[2], preconditionOrder)
            /\ PositionOf(d[2], preconditionOrder) < PositionOf(d[1], preconditionOrder)
       /\ \A i, j \in 1..Len(preconditionOrder) :
            preconditionOrder[i] = preconditionOrder[j] => i = j

\* a chain: a's precondition reads b, b's reads c; the order is c, b, a
C9_Witness ==
  /\ pc = "ready"
  /\ <<pA, pB>> \in AfterRelation
  /\ <<pB, pC>> \in AfterRelation
  /\ PositionOf(pC, preconditionOrder) < PositionOf(pB, preconditionOrder)
  /\ PositionOf(pB, preconditionOrder) < PositionOf(pA, preconditionOrder)

\* the concrete paths that the dependency clears when every match and every
\* precondition is read from the tree
ClearedBy(tree, dep) ==
  SelectSeq(getDataPathsForRefPath(dep, tree),
            LAMBDA p : ~preconditionsMet(getConfigNodeByPath(config, dep), tree,
                                         ArrTarget(p)))

\* C8: the pruner never modifies the caller's data, and every match and every
\* precondition evaluation reads the data as it was handed in: the paths
\* cleared so far are those that the dependencies processed so far clear on
\* the caller's original data.
C8_PrunerReadsSnapshot ==
  pc \in {"pruning", "pruned", "repruned"} =>
    /\ data = original
    /\ cleared = ConcatAll([i \in 1..(idx - 1) |->
                              ClearedBy(original, preconditionOrder[i])])

\* b was cleared, and a, whose precondition reads b, was kept: it was met on
\* the caller's data and is not met on the result
C8_Witness ==
  /\ pc = "pruned"
  /\ cleared # <<>>
  /\ \E i \in 1..Len(config.nodes) :
       \E p \in SeqToSet(getDataPathsForRefPath(config.nodes[i].path, original)) :
         /\ config.nodes[i].hasPre
         /\ preconditionsMet(config.nodes[i], original, ArrTarget(p))
         /\ ~preconditionsMet(config.nodes[i], result, ArrTarget(p))
         /\ Get(result, p) = Get(original, p)

\* C3: pruning is idempotent: pruning the pruned data again, with the same
\* configuration, removes nothing more.
C3_PruneIdempotent == pc = "repruned" => repruned = result

\* C4: for every node with a ref-path and preconditions, and every concrete
\* path of the input data matching the ref-path, if the preconditions are not
\* all truthy at that path, the value at that path in the pruned data is
\* absent.
C4_UnmetIsAbsent ==
  pc = "pruned" =>
    \A i \in 1..Len(config.nodes) :
      config.nodes[i].hasPre =>
        \A p \in SeqToSet(getDataPathsForRefPath(config.nodes[i].path, original)) :
          ~preconditionsMet(config.nodes[i], original, ArrTarget(p))
            => Get(result, p) = "UNDEF"

(***************************************************************************)
(* evaluateSectionStates: the required pass over the configuration of a    *)
(* section, then the custom pass over the leaves of its data.              *)
(***************************************************************************)
isArrayPath(path) == Contains(path, "*")

\* the path up to and including its last '*'
getNearestRepeatableAncestorRefPath(path) ==
  SubSeq(path, 1, CHOOSE i \in 1..Len(path) :
                    /\ path[i] = "*"
                    /\ \A j \in (i + 1)..Len(path) : path[j] # "*")

getAbsoluteDataPath(rootDataPath, rp) ==
  rootDataPath \o SubSeq(StripRef(rp), Len(rootDataPath) + 1, Len(StripRef(rp)))

isBlank(value) == value = "UNDEF" \/ value = ""

dataNodeIsBlank(path, tree) ==
  \/ isBlank(Get(tree, path))
  \/ /\ Get(tree, path) = "ARR"
     /\ \/ Append(path, "0") \notin DOMAIN tree
        \/ isBlank(Get(tree, Append(path, "0")))

\* the required rules are resolved with this.path, which no caller sets, as
\* the target; the message is that of the first rule that resolves truthy
resolveRequiredMessage(requiredNode, tree) ==
  LET resolvedRequired == [i \in 1..Len(requiredNode) |->
                             resolve(requiredNode[i].e, tree, NoTarget)]
      hits == {i \in 1..Len(requiredNode) : Truthy(resolvedRequired[i])}
  IN IF hits = {} THEN "FALSE"
     ELSE requiredNode[CHOOSE i \in hits : \A j \in hits : i <= j].message

\* the paths, as dotted strings, at which the required pass checks node n
RequiredPaths(n, tree) ==
  IF ~isArrayPath(n.path) THEN <<StripRef(n.path)>>
  ELSE IF ~isArrayPath(Front(n.path)) THEN <<StripRef(Front(n.path))>>
  ELSE LET dataPaths == getDataPathsForRefPath(
                          getNearestRepeatableAncestorRefPath(Front(n.path)), tree)
       IN [i \in 1..Len(dataPaths) |-> getAbsoluteDataPath(dataPaths[i], n.path)]

\* validateRequired: the path it is given is a dotted string
validateRequired(configNode, tree, path) ==
  LET requiredMessage == resolveRequiredMessage(configNode.required, tree)
  IN IF /\ Truthy(requiredMessage)
        /\ preconditionsMet(configNode, tree, StrTarget(path))
        /\ dataNodeIsBlank(path, tree)
       THEN <<[path |-> path, message |-> requiredMessage]>>
       ELSE <<>>

\* what validateRequired found the preconditions of a node to be at a path
RequiredCheck(configNode, tree, path) ==
  IF Truthy(resolveRequiredMessage(configNode.required, tree))
    THEN <<[node |-> configNode.path, path |-> path,
            met |-> preconditionsMet(configNode, tree, StrTarget(path))]>>
    ELSE <<>>

\* the traversal of the section's configuration: every node with a required
\* rule, in order, at each of its paths
RequiredPass(cfg, tree) ==
  ConcatAll([i \in 1..Len(cfg.nodes) |->
    IF Len(cfg.nodes[i].required) = 0 THEN <<>>
    ELSE LET ps == RequiredPaths(cfg.nodes[i], tree)
         IN ConcatAll([j \in 1..Len(ps) |->
                         validateRequired(cfg.nodes[i], tree, ps[j])])])

RequiredChecks(cfg, tree) ==
  ConcatAll([i \in 1..Len(cfg.nodes) |->
    IF Len(cfg.nodes[i].required) = 0 THEN <<>>
    ELSE LET ps == RequiredPaths(cfg.nodes[i], tree)
         IN ConcatAll([j \in 1..Len(ps) |->
                         RequiredCheck(cfg.nodes[i], tree, ps[j])])])

\* validateCustom: the path it is given is an array of tokens; the message is
\* that of the first validation that resolves to false
validateCustom(configNode, tree, path) ==
  LET validations == configNode.validations
      failing == {i \in 1..Len(validations) :
                    resolve(validations[i].e, tree, ArrTarget(path)) = "FALSE"}
  IN IF /\ preconditionsMet(configNode, tree, ArrTarget(path))
        /\ ~isBlank(Get(tree, path))
        /\ failing # {}
       THEN <<[path |-> path,
               message |-> validations[CHOOSE i \in failing :
                                         \A j \in failing : i <= j].message]>>
       ELSE <<>>

\* the leaves of data[sectionId] in traversal order; a section that is
\* missing from the data is one leaf, the root
SectionLeaves(tree, sectionId) ==
  IF <<sectionId>> \notin DOMAIN tree THEN <<<<sectionId>>>>
  ELSE LET all == Walk(tree, <<sectionId>>)
       IN ConcatAll([i \in 1..Len(all) |->
                       IF IsLeaf(tree, all[i]) THEN <<all[i]>> ELSE <<>>])

RECURSIVE CustomPass(_, _, _, _, _)
\* applyCustomValidationIfFails from the i-th leaf on
CustomPass(cfg, tree, leaves, i, messageArr) ==
  IF i > Len(leaves) THEN messageArr
  ELSE LET found == validateCustom(
                      getConfigNodeByPath(cfg, getRefPathForDataPath(leaves[i])),
                      tree, leaves[i])
           taken == \E k \in 1..Len(messageArr) : messageArr[k].path = leaves[i]
       IN CustomPass(cfg, tree, leaves, i + 1,
                     IF found # <<>> /\ ~taken THEN messageArr \o found
                     ELSE messageArr)

(***************************************************************************)
(* SpecValidate: getWorkflowState up to the section states: the engine is  *)
(* constructed, the data is pruned, and section "s" is validated on the    *)
(* pruned data.                                                            *)
(***************************************************************************)
RequiredRule == <<[e |-> Fn("pass", <<>>), message |-> "required"]>>

ValidationRules == <<[e |-> Fn("pass", <<>>), message |-> "never"],
                     [e |-> Fn("not", <<ValueOfTarget>>), message |-> "invalid"]>>

pT == <<"$", "s", "t">>
pTItem == <<"$", "s", "t", "*">>

RuledField(path, pre, required, validations) ==
  ConfigNode("", path, "field", pre.has, pre.list, required, validations, Lit(""))

\* field a: plain, required, or required under a precondition on itself
ValidateA ==
  {RuledField(pA, NoPre, <<>>, <<>>), RuledField(pA, NoPre, RequiredRule, ValidationRules),
   RuledField(pA, Pre(<<Ref(pA)>>), RequiredRule, <<>>)}

\* the array t of scalars: declared by its own path, or by its items' path
ValidateT ==
  {RuledField(pT, NoPre, <<>>, <<>>), RuledField(pT, NoPre, RequiredRule, ValidationRules),
   RuledField(pTItem, NoPre, RequiredRule, <<>>)}

\* field f of the items of group r
ValidateRF ==
  {RuledField(pRF, NoPre, <<>>, <<>>),
   RuledField(pRF, NoPre, RequiredRule, ValidationRules),
   RuledField(pRF, Pre(<<Ref(pRelG)>>), RequiredRule, ValidationRules),
   RuledField(pRF, Pre(<<Ref(pC)>>), RequiredRule, ValidationRules)}

ValidateConfigs ==
  {[nodes |-> <<SectionNode, a, Field(pC, NoPre), t, Field(pR, NoPre), f,
                Field(pRG, NoPre)>>,
    edges |-> <<>>] : a \in ValidateA, t \in ValidateT, f \in ValidateRF}

ValidateTrees ==
  Trees({"a", "c"}, {"v", ""}, {"f", "g"}, {"v", "", "ARR"}, {"v"})

ValidateInit ==
  /\ pc = "start"
  /\ config \in ValidateConfigs
  /\ data \in ValidateTrees
  /\ original = data
  /\ idx = 0
  /\ preconditionOrder = <<>>
  /\ result = <<>>
  /\ shared = FALSE
  /\ cleared = <<>>
  /\ repruned = <<>>
  /\ validationMessages = <<>>
  /\ requiredChecks = <<>>
  /\ PathIdle
  /\ ResolveIdle
  /\ GraphIdle

\* evaluateSectionStates(prunedData, ...): the required pass of section "s"
ValidateRequired ==
  /\ pc = "pruned"
  /\ validationMessages' = RequiredPass(config, result)
  /\ requiredChecks' = RequiredChecks(config, result)
  /\ pc' = "required"
  /\ UNCHANGED <<config, data, idx, pathVars, resolveVars, graphVars, pruneVars>>

\* the custom pass of section "s" and the section's status
ValidateCustom ==
  /\ pc = "required"
  /\ validationMessages' = CustomPass(config, result, SectionLeaves(result, "s"), 1,
                                      validationMessages)
  /\ sectionStates' = [s \in {"s"} |->
                         IF Len(validationMessages') > 0 THEN "invalid" ELSE "valid"]
  /\ pc' = "validated"
  /\ UNCHANGED <<config, data, idx, pathVars, resolveVars, pruneVars, requiredChecks,
                 nodeEvaluationOrder, frontierFound, nodeStatuses, edgeStates>>

ValidateNext ==
  \/ ConstructFails \/ Construct \/ PruneBegin \/ PruneOne \/ PruneEnd
  \/ ValidateRequired \/ ValidateCustom

SpecValidate == ValidateInit /\ [][ValidateNext]_vars

\* the node that governs the leaf p of the data, and the paths its required
\* rule addresses
GoverningNode(p) == getConfigNodeByPath(config, getRefPathForDataPath(p))

\* the required rule of node n fails at concrete path p: a message resolves,
\* the preconditions of n are met at p, and the data at p is blank
RequiredFailsAt(n, p) ==
  /\ Len(n.required) > 0
  /\ Truthy(resolveRequiredMessage(n.required, result))
  /\ preconditionsMet(n, result, ArrTarget(p))
  /\ dataNodeIsBlank(p, result)

\* a custom validation fails at leaf p
CustomFailsAt(p) == validateCustom(GoverningNode(p), result, p) # <<>>

MessagesAt(p) ==
  {k \in 1..Len(validationMessages) : validationMessages[k].path = p}

\* C5 (required precedence): once section "s" is validated, no path appears
\* in two of its messages, every required message precedes every custom
\* message, and a path with both a failing required rule and a failing custom
\* validation carries the required message only.
C5_RequiredPrecedence ==
  pc = "validated" =>
    /\ \A j, k \in 1..Len(validationMessages) :
         validationMessages[j].path = validationMessages[k].path => j = k
    /\ \A j, k \in 1..Len(validationMessages) :
         (validationMessages[j].message = "required"
            /\ validationMessages[k].message # "required") => j < k
    /\ \A i \in 1..Len(config.nodes) :
         \A p \in SeqToSet(RequiredPaths(config.nodes[i], result)) :
           (RequiredFailsAt(config.nodes[i], p) /\ p \in DOMAIN result
              /\ IsLeaf(result, p) /\ CustomFailsAt(p))
             => /\ MessagesAt(p) # {}
                /\ \A k \in MessagesAt(p) : validationMessages[k].message = "required"

\* C10 ('^' in the required pass): for a node with a required rule inside a
\* repeated group, the required pass finds the node's preconditions at a
\* concrete path to be what the pruner finds them to be at that path, each
\* '^' being replaced by the index at the same position of the path.
C10_RelativeIndexInRequiredPass ==
  pc = "validated" =>
    \A k \in 1..Len(requiredChecks) :
      isArrayPath(Front(requiredChecks[k].node)) =>
        requiredChecks[k].met =
          preconditionsMet(getConfigNodeByPath(config, requiredChecks[k].node),
                           result, ArrTarget(requiredChecks[k].path))

====
